---- MODULE Spec2Model ----
(***************************************************************************)
(* Model of the two auto-graders grade_pandas.py and grade_python_list.py. *)
(*                                                                         *)
(* Text is a flat sequence of tokens.  A token is a whitespace character   *)
(* (" " or "\n"), a header text, a punctuation mark of the Python literal  *)
(* syntax, a quoted string, a number or a bare word.  Adjacent tokens are  *)
(* adjacent in the text.  Python values are tagged records (field t is the *)
(* type, field v the payload).                                             *)
(***************************************************************************)
EXTENDS Naturals, Sequences, FiniteSets, TLC

\* ------------------------------------------------------------------------
\* Bounds of the model
\* ------------------------------------------------------------------------
MaxPrints == 3
MaxFiles == 2

\* ------------------------------------------------------------------------
\* Configuration tables of the two graders
\* ------------------------------------------------------------------------
Graders == {"pandas", "list"}

\* Declaration order of the tasks (insertion order of POINTS and HEADERS).
Keys == <<"joined", "grouped", "sorted_result", "top_user">>

KeySet == {Keys[i] : i \in 1..Len(Keys)}

KeyIndex(k) == CHOOSE i \in 1..Len(Keys) : Keys[i] = k

TIMEOUT_SECS == 8

POINTS_pandas == [joined |-> 5, grouped |-> 10, sorted_result |-> 20, top_user |-> 5]

POINTS_list == [joined |-> 15, grouped |-> 30, sorted_result |-> 15, top_user |-> 10]

POINTS(g) == IF g = "pandas" THEN POINTS_pandas ELSE POINTS_list

\* The header strings of grade_python_list.py start with U+2705 (check mark)
\* and U+1F3C6 (trophy).  The bytes in grade_pandas.py are those same
\* characters after a UTF-8 -> cp1252 -> UTF-8 round trip: U+00E2 U+0153
\* U+2026 and U+00F0 U+0178 U+2020.  They are different strings.
HEADERS_list ==
  [joined        |-> "<U+2705> Joined Result:",
   grouped       |-> "<U+2705> Grouped Result:",
   sorted_result |-> "<U+2705> Sorted Result:",
   top_user      |-> "<U+1F3C6> Top User:"]

HEADERS_pandas ==
  [joined        |-> "<U+00E2 U+0153 U+2026> Joined Result:",
   grouped       |-> "<U+00E2 U+0153 U+2026> Grouped Result:",
   sorted_result |-> "<U+00E2 U+0153 U+2026> Sorted Result:",
   top_user      |-> "<U+00F0 U+0178 U+2020> Top User:"]

HEADERS(g) == IF g = "pandas" THEN HEADERS_pandas ELSE HEADERS_list

\* Marker literals written inside sorted_fallback and top_user_fallback.
SORTED_MARKER == "<U+00E2 U+0153 U+2026> Sorted Result:"

TOP_MARKER == "<U+00F0 U+0178 U+2020> Top User:"

\* ------------------------------------------------------------------------
\* Python values
\* ------------------------------------------------------------------------
PyNone == [t |-> "none", v |-> "None"]

PyInt(n) == [t |-> "int", v |-> n]

PyStr(s) == [t |-> "str", v |-> s]

PyList(xs) == [t |-> "list", v |-> xs]

PyTuple(xs) == [t |-> "tuple", v |-> xs]

\* A dict is the sequence of its items in insertion order; keys are unique.
PyDict(items) == [t |-> "dict", v |-> items]

Item(key, val) == [k |-> key, val |-> val]

IsNone(x) == x.t = "none"

RowJoined(name, total) ==
  PyDict(<<Item(PyStr("name"), PyStr(name)), Item(PyStr("total"), PyInt(total))>>)

Agg(n, s) ==
  PyDict(<<Item(PyStr("num_orders"), PyInt(n)), Item(PyStr("total_spent"), PyInt(s))>>)

EXPECTED ==
  [joined        |-> PyList(<<RowJoined("Alice", 100), RowJoined("Alice", 150),
                              RowJoined("Bob", 200)>>),
   grouped       |-> PyDict(<<Item(PyStr("Alice"), Agg(2, 250)),
                              Item(PyStr("Bob"), Agg(1, 200))>>),
   sorted_result |-> PyList(<<PyTuple(<<PyStr("Alice"), Agg(2, 250)>>),
                              PyTuple(<<PyStr("Bob"), Agg(1, 200)>>)>>),
   top_user      |-> PyTuple(<<PyStr("Alice"), Agg(2, 250)>>)]

\* ------------------------------------------------------------------------
\* compare_deep: Python's == on literal values
\* ------------------------------------------------------------------------
RECURSIVE PyEqOrderedDict(_, _)
PyEqOrderedDict(a, b) ==
  IF a.t # b.t THEN FALSE
  ELSE IF a.t \in {"int", "str"} THEN a.v = b.v
  ELSE IF a.t = "none" THEN TRUE
  ELSE IF a.t \in {"list", "tuple"} THEN
    /\ Len(a.v) = Len(b.v)
    /\ \A i \in 1..Len(a.v) : PyEqOrderedDict(a.v[i], b.v[i])
  ELSE
    /\ Len(a.v) = Len(b.v)
    /\ \A i \in 1..Len(a.v) :
         /\ PyEqOrderedDict(a.v[i].k, b.v[i].k)
         /\ PyEqOrderedDict(a.v[i].val, b.v[i].val)

RECURSIVE compare_deep(_, _)
compare_deep(a, b) ==
  IF a.t # b.t THEN FALSE
  ELSE IF a.t \in {"int", "str"} THEN a.v = b.v
  ELSE IF a.t = "none" THEN TRUE
  ELSE IF a.t \in {"list", "tuple"} THEN
    /\ Len(a.v) = Len(b.v)
    /\ \A i \in 1..Len(a.v) : compare_deep(a.v[i], b.v[i])
  ELSE
    /\ Len(a.v) = Len(b.v)
    /\ \A i \in 1..Len(a.v) : \E j \in 1..Len(b.v) :
         /\ compare_deep(a.v[i].k, b.v[j].k)
         /\ compare_deep(a.v[i].val, b.v[j].val)

\* ------------------------------------------------------------------------
\* Tokens and lines
\* ------------------------------------------------------------------------
SP == " "

NL == "\n"

IsSpace(tok) == tok \in {SP, NL}

Min(S) == CHOOSE x \in S : \A y \in S : x <= y

\* Body applied to the value of v, which is computed once.
Let(v, Body(_)) == CHOOSE y \in {Body(x) : x \in {v}} : TRUE

\* str.splitlines(): the text is cut at every "\n"; a final "\n" does not
\* open a further empty line.
splitlines(text) ==
  Let({i \in 1..Len(text) : text[i] = NL}, LAMBDA nls :
    LET nth(k)  == CHOOSE i \in nls : Cardinality({j \in nls : j <= i}) = k
        n       == Cardinality(nls)
                   + (IF Len(text) > 0 /\ text[Len(text)] # NL THEN 1 ELSE 0)
        from(k) == IF k = 1 THEN 1 ELSE nth(k - 1) + 1
        to(k)   == IF k <= Cardinality(nls) THEN nth(k) - 1 ELSE Len(text)
    IN [k \in 1..n |-> SubSeq(text, from(k), to(k))])

\* str.strip(): drop leading and trailing whitespace.
RECURSIVE LStrip(_)
LStrip(s) == IF s # <<>> /\ IsSpace(Head(s)) THEN LStrip(Tail(s)) ELSE s

RECURSIVE RStrip(_)
RStrip(s) ==
  IF s # <<>> /\ IsSpace(s[Len(s)]) THEN RStrip(SubSeq(s, 1, Len(s) - 1)) ELSE s

strip(s) == RStrip(LStrip(s))

\* ------------------------------------------------------------------------
\* safe_literal_eval: ast.literal_eval on the tokens of one line
\* ------------------------------------------------------------------------
IntTokens == {"1", "2", "100", "150", "200", "250"}

IntVal(tok) ==
  CASE tok = "1" -> 1 [] tok = "2" -> 2 [] tok = "100" -> 100
    [] tok = "150" -> 150 [] tok = "200" -> 200 [] tok = "250" -> 250

\* Quoted strings, single or double quotes.
StrTokens ==
  {"'Alice'", "'Bob'", "'name'", "'total'", "'num_orders'", "'total_spent'",
   "\"Alice\""}

\* The characters between the quotes.
StrVal(tok) ==
  CASE tok = "'Alice'" -> "Alice" [] tok = "\"Alice\"" -> "Alice"
    [] tok = "'Bob'" -> "Bob" [] tok = "'name'" -> "name"
    [] tok = "'total'" -> "total" [] tok = "'num_orders'" -> "num_orders"
    [] tok = "'total_spent'" -> "total_spent"

EOF == "<EOF>"

ParseFail == [ok |-> FALSE, val |-> PyNone, pos |-> 0, comma |-> FALSE]

ParseOk(val, pos, comma) == [ok |-> TRUE, val |-> val, pos |-> pos, comma |-> comma]

RECURSIVE Hashable(_)
Hashable(x) ==
  \/ x.t \in {"int", "str", "none"}
  \/ x.t = "tuple" /\ \A i \in 1..Len(x.v) : Hashable(x.v[i])

\* d[key] = val while the dict display is evaluated left to right: a repeated
\* key keeps its position and takes the later value.
DictPut(items, key, val) ==
  IF \E i \in 1..Len(items) : compare_deep(items[i].k, key)
  THEN [i \in 1..Len(items) |->
          IF compare_deep(items[i].k, key) THEN Item(key, val) ELSE items[i]]
  ELSE Append(items, Item(key, val))

RECURSIVE ParseValue(_, _), ParseElems(_, _, _, _), ParseItems(_, _, _)
\* One expression starting at toks[i].
ParseValue(toks, i) ==
  IF i > Len(toks) THEN ParseFail
  ELSE Let(toks[i], LAMBDA tok :
    IF tok \in IntTokens THEN ParseOk(PyInt(IntVal(tok)), i + 1, FALSE)
    ELSE IF tok \in StrTokens THEN ParseOk(PyStr(StrVal(tok)), i + 1, FALSE)
    ELSE IF tok = "None" THEN ParseOk(PyNone, i + 1, FALSE)
    ELSE IF tok = "[" THEN
      Let(ParseElems(toks, i + 1, "]", <<>>), LAMBDA r :
        IF r.ok THEN ParseOk(PyList(r.val), r.pos, FALSE) ELSE ParseFail)
    ELSE IF tok = "(" THEN
      Let(ParseElems(toks, i + 1, ")", <<>>), LAMBDA r :
        IF ~r.ok THEN ParseFail
        ELSE IF Len(r.val) = 1 /\ ~r.comma THEN ParseOk(r.val[1], r.pos, FALSE)
        ELSE ParseOk(PyTuple(r.val), r.pos, FALSE))
    ELSE IF tok = "{" THEN
      Let(ParseItems(toks, i + 1, <<>>), LAMBDA r :
        IF r.ok THEN ParseOk(PyDict(r.val), r.pos, FALSE) ELSE ParseFail)
    ELSE ParseFail)

\* Comma-separated expressions up to the closing token; comma tells whether
\* the closing token followed a comma.
ParseElems(toks, i, close, acc) ==
  IF i > Len(toks) THEN ParseFail
  ELSE IF toks[i] = close THEN ParseOk(acc, i + 1, acc # <<>>)
  ELSE Let(ParseValue(toks, i), LAMBDA r :
    IF ~r.ok \/ r.pos > Len(toks) THEN ParseFail
    ELSE IF toks[r.pos] = close THEN ParseOk(Append(acc, r.val), r.pos + 1, FALSE)
    ELSE IF toks[r.pos] = "," THEN ParseElems(toks, r.pos + 1, close, Append(acc, r.val))
    ELSE ParseFail)

\* key: value pairs up to "}".
ParseItems(toks, i, acc) ==
  IF i > Len(toks) THEN ParseFail
  ELSE IF toks[i] = "}" THEN ParseOk(acc, i + 1, acc # <<>>)
  ELSE Let(ParseValue(toks, i), LAMBDA rk :
    IF ~rk.ok \/ rk.pos > Len(toks) THEN ParseFail
    ELSE IF toks[rk.pos] # ":" \/ ~Hashable(rk.val) THEN ParseFail
    ELSE Let(ParseValue(toks, rk.pos + 1), LAMBDA rv :
      IF ~rv.ok \/ rv.pos > Len(toks) THEN ParseFail
      ELSE IF toks[rv.pos] = "}"
        THEN ParseOk(DictPut(acc, rk.val, rv.val), rv.pos + 1, FALSE)
      ELSE IF toks[rv.pos] = ","
        THEN Let(DictPut(acc, rk.val, rv.val), LAMBDA items :
               ParseItems(toks, rv.pos + 1, items))
      ELSE ParseFail))

NoSpace(tok) == ~IsSpace(tok)

\* ast.literal_eval(s.strip()); None on any exception.  Blanks between the
\* tokens are not significant; a top-level "a, b" is a tuple.
safe_literal_eval(s) ==
  Let(Append(SelectSeq(strip(s), NoSpace), EOF), LAMBDA toks :
    Let(ParseElems(toks, 1, EOF, <<>>), LAMBDA r :
      IF ~r.ok \/ r.val = <<>> THEN PyNone
      ELSE IF Len(r.val) = 1 /\ ~r.comma THEN r.val[1]
      ELSE PyTuple(r.val)))

\* ------------------------------------------------------------------------
\* extract_after_header
\* ------------------------------------------------------------------------
RECURSIVE NextNonEmpty(_, _)
NextNonEmpty(lines, j) ==
  IF j > Len(lines) THEN PyNone
  ELSE Let(strip(lines[j]), LAMBDA nxt :
    IF nxt # <<>> THEN safe_literal_eval(nxt) ELSE NextNonEmpty(lines, j + 1))

\* Index of the first line that is the header after strip(), 0 if none.
RECURSIVE HeaderLineFrom(_, _, _)
HeaderLineFrom(lines, i, header) ==
  IF i > Len(lines) THEN 0
  ELSE IF strip(lines[i]) = <<header>> THEN i
  ELSE HeaderLineFrom(lines, i + 1, header)

\* Index of the last such line, 0 if none.
RECURSIVE LastHeaderLineFrom(_, _, _)
LastHeaderLineFrom(lines, i, header) ==
  IF i < 1 THEN 0
  ELSE IF strip(lines[i]) = <<header>> THEN i
  ELSE LastHeaderLineFrom(lines, i - 1, header)

LastHeaderLine(lines, header) == LastHeaderLineFrom(lines, Len(lines), header)

HeaderLine(lines, header) == HeaderLineFrom(lines, 1, header)

extract_after_header(stdout, header) ==
  Let(splitlines(stdout), LAMBDA lines :
    Let(HeaderLine(lines, header), LAMBDA i :
      IF i = 0 THEN PyNone ELSE NextNonEmpty(lines, i + 1)))

\* ------------------------------------------------------------------------
\* Regular expressions of grade_pandas.py, matched on tokens
\* ------------------------------------------------------------------------
\* The characters of a token without its quotes: a pattern word that occurs
\* inside a quoted string occurs in the text.
Unquoted(tok) == IF tok \in StrTokens THEN StrVal(tok) ELSE tok

\* re.IGNORECASE on the words of the vocabulary.
Lower(tok) ==
  CASE tok = "Name:" -> "name:" [] tok = "NAME:" -> "name:"
    [] tok = "Alice" -> "alice" [] tok = "ALICE" -> "alice"
    [] tok = "Total_Spent" -> "total_spent"
    [] OTHER -> tok

\* First index at or after j whose token is not whitespace (Len + 1 if none).
RECURSIVE SkipSpace(_, _)
SkipSpace(text, j) ==
  IF j <= Len(text) /\ IsSpace(text[j]) THEN SkipSpace(text, j + 1) ELSE j

\* r"<first>.*<last>": both words on one line, first before last.
RECURSIVE SameLineLater(_, _, _)
SameLineLater(text, j, last) ==
  IF j > Len(text) \/ text[j] = NL THEN FALSE
  ELSE IF Unquoted(text[j]) = last THEN TRUE
  ELSE SameLineLater(text, j + 1, last)

DotStarAt(text, i, first, last) ==
  /\ Unquoted(text[i]) = first
  /\ SameLineLater(text, i + 1, last)

\* r"<name>\s+<n>\s+<s>": three words separated by whitespace, line breaks
\* included.
TripleAt(text, i, name, n, s) ==
  LET j == SkipSpace(text, i + 1)
      k == SkipSpace(text, j + 1)
  IN /\ text[i] = name
     /\ j > i + 1 /\ j <= Len(text) /\ text[j] = n
     /\ k > j + 1 /\ k <= Len(text) /\ text[k] = s

\* r"Name:\s*Alice" with re.IGNORECASE.
TopNameAt(text, i) ==
  LET j == SkipSpace(text, i + 1)
  IN /\ Lower(text[i]) = "name:"
     /\ j <= Len(text) /\ Lower(text[j]) = "alice"

\* r"total_spent\s+250" with re.IGNORECASE.
TopValAt(text, i) ==
  LET j == SkipSpace(text, i + 1)
  IN /\ Lower(text[i]) = "total_spent"
     /\ j > i + 1 /\ j <= Len(text) /\ text[j] = "250"

MatchAt(re, text, i) ==
  CASE re = "RE_JOINED_A1" -> DotStarAt(text, i, "Alice", "100")
    [] re = "RE_JOINED_A2" -> DotStarAt(text, i, "Alice", "150")
    [] re = "RE_JOINED_B1" -> DotStarAt(text, i, "Bob", "200")
    [] re = "RE_G_A"       -> TripleAt(text, i, "Alice", "2", "250")
    [] re = "RE_G_B"       -> TripleAt(text, i, "Bob", "1", "200")
    [] re = "RE_TOP_NAME"  -> TopNameAt(text, i)
    [] re = "RE_TOP_VAL"   -> TopValAt(text, i)

\* pattern.search(text): start of the leftmost match, 0 for no match.
search(re, text) ==
  Let({i \in 1..Len(text) : MatchAt(re, text, i)}, LAMBDA starts :
    IF starts = {} THEN 0 ELSE Min(starts))

\* ------------------------------------------------------------------------
\* Tolerant matchers of grade_pandas.py
\* ------------------------------------------------------------------------
\* text.find(marker): index of the first occurrence, 0 if it does not occur.
find(text, marker) ==
  Let({i \in 1..Len(text) : text[i] = marker}, LAMBDA at :
    IF at = {} THEN 0 ELSE Min(at))

\* text.split(marker, 1)[1] when the marker occurs, else the text
SectionAfter(text, marker) ==
  Let(find(text, marker), LAMBDA at :
    IF at # 0 THEN SubSeq(text, at + 1, Len(text)) ELSE text)

joined_fallback(stdout) ==
  \A re \in {"RE_JOINED_A1", "RE_JOINED_A2", "RE_JOINED_B1"} : search(re, stdout) # 0

grouped_fallback(stdout) ==
  search("RE_G_A", stdout) # 0 /\ search("RE_G_B", stdout) # 0

\* The order test left out.
sorted_fallback_unordered(stdout) ==
  Let(SectionAfter(stdout, SORTED_MARKER), LAMBDA section :
    search("RE_G_A", section) # 0 /\ search("RE_G_B", section) # 0)

\* The whole output searched, marker or not.
sorted_fallback_whole(stdout) ==
  Let(search("RE_G_A", stdout), LAMBDA ma :
    Let(search("RE_G_B", stdout), LAMBDA mb :
      ma # 0 /\ mb # 0 /\ ma < mb))

sorted_fallback(stdout) ==
  Let(SectionAfter(stdout, SORTED_MARKER), LAMBDA section :
    Let(search("RE_G_A", section), LAMBDA ma :
      Let(search("RE_G_B", section), LAMBDA mb :
        ma # 0 /\ mb # 0 /\ ma < mb)))

top_user_fallback(stdout) ==
  Let(SectionAfter(stdout, TOP_MARKER), LAMBDA block :
    search("RE_TOP_NAME", block) # 0 /\ search("RE_TOP_VAL", block) # 0)

fallback(key, stdout) ==
  CASE key = "joined"        -> joined_fallback(stdout)
    [] key = "grouped"       -> grouped_fallback(stdout)
    [] key = "sorted_result" -> sorted_fallback(stdout)
    [] key = "top_user"      -> top_user_fallback(stdout)

\* ------------------------------------------------------------------------
\* grade_from_stdout
\* ------------------------------------------------------------------------
\* sum(breakdown.values())
RECURSIVE SumFrom(_, _)
SumFrom(breakdown, i) ==
  IF i > Len(Keys) THEN 0 ELSE breakdown[Keys[i]] + SumFrom(breakdown, i + 1)

Total(breakdown) == SumFrom(breakdown, 1)

ZeroBreakdown == [k \in KeySet |-> 0]

\* parsed[key] for every key of HEADERS
Parsed(g, stdout) == [k \in KeySet |-> extract_after_header(stdout, HEADERS(g)[k])]

\* obj is not None and compare_deep(obj, EXPECTED[key])
Strict(obj, key) == ~IsNone(obj) /\ compare_deep(obj, EXPECTED[key])

Breakdown(points, passed) == [k \in KeySet |-> IF passed[k] THEN points[k] ELSE 0]

Graded(breakdown, remarks) ==
  [total |-> Total(breakdown), breakdown |-> breakdown, remarks |-> remarks]

\* grade_pandas.py: one remark for every key that fails both tests.
RECURSIVE PandasRemarks(_, _)
PandasRemarks(passed, i) ==
  IF i > Len(Keys) THEN <<>>
  ELSE (IF passed[Keys[i]] THEN <<>> ELSE <<[kind |-> "mismatch", key |-> Keys[i]]>>)
       \o PandasRemarks(passed, i + 1)

\* grade_pandas.py: literal compare, else the fallback, else a remark.
grade_pandas(stdout) ==
  Let(Parsed("pandas", stdout), LAMBDA parsed :
    Let([k \in KeySet |-> Strict(parsed[k], k) \/ fallback(k, stdout)], LAMBDA passed :
      Let(Breakdown(POINTS_pandas, passed), LAMBDA breakdown :
        Graded(breakdown, PandasRemarks(passed, 1)))))

\* grade_python_list.py, first loop: one remark per key without a literal.
RECURSIVE MissingRemarks(_, _)
MissingRemarks(parsed, i) ==
  IF i > Len(Keys) THEN <<>>
  ELSE (IF IsNone(parsed[Keys[i]])
        THEN <<[kind |-> "missing", key |-> Keys[i]]>>
        ELSE <<>>)
       \o MissingRemarks(parsed, i + 1)

\* grade_python_list.py, second loop: one remark per key that is not correct.
RECURSIVE ExpectedRemarks(_, _, _)
ExpectedRemarks(parsed, passed, i) ==
  IF i > Len(Keys) THEN <<>>
  ELSE (IF passed[Keys[i]]
        THEN <<>>
        ELSE <<[kind |-> "expected", key |-> Keys[i], got |-> parsed[Keys[i]]]>>)
       \o ExpectedRemarks(parsed, passed, i + 1)

\* The second loop's remarks put first.
ListRemarksSwapped(parsed, passed) ==
  ExpectedRemarks(parsed, passed, 1) \o MissingRemarks(parsed, 1)

ListRemarks(parsed, passed) ==
  MissingRemarks(parsed, 1) \o ExpectedRemarks(parsed, passed, 1)

\* A list grader with the fallbacks of the other module added.
grade_list_with_fallback(stdout) ==
  Let(Parsed("list", stdout), LAMBDA parsed :
    Let([k \in KeySet |-> Strict(parsed[k], k) \/ fallback(k, stdout)], LAMBDA passed :
      Let(Breakdown(POINTS_list, passed), LAMBDA breakdown :
        Graded(breakdown, ListRemarks(parsed, passed)))))

\* grade_python_list.py: the literal compare alone.
grade_list(stdout) ==
  Let(Parsed("list", stdout), LAMBDA parsed :
    Let([k \in KeySet |-> Strict(parsed[k], k)], LAMBDA passed :
      Let(Breakdown(POINTS_list, passed), LAMBDA breakdown :
        Graded(breakdown, ListRemarks(parsed, passed)))))

grade_from_stdout(g, stdout) ==
  IF g = "pandas" THEN grade_pandas(stdout) ELSE grade_list(stdout)

\* ------------------------------------------------------------------------
\* Lines a submission may print
\* ------------------------------------------------------------------------
Sep == <<",", SP>>

Colon == <<":", SP>>

TokRow(name, total) ==
  <<"{", "'name'">> \o Colon \o <<name>> \o Sep \o <<"'total'">> \o Colon
    \o <<total, "}">>

TokAgg(n, s) ==
  <<"{", "'num_orders'">> \o Colon \o <<n>> \o Sep \o <<"'total_spent'">> \o Colon
    \o <<s, "}">>

TokPair(name, n, s) == <<"(", name>> \o Sep \o TokAgg(n, s) \o <<")">>

\* print(joined), print(grouped), print(sorted_result), print(top_user) of a
\* correct list solution
LitJoined ==
  <<"[">> \o TokRow("'Alice'", "100") \o Sep \o TokRow("'Alice'", "150") \o Sep
    \o TokRow("'Bob'", "200") \o <<"]">>

LitGrouped ==
  <<"{", "'Alice'">> \o Colon \o TokAgg("2", "250") \o Sep \o <<"'Bob'">> \o Colon
    \o TokAgg("1", "200") \o <<"}">>

LitSorted ==
  <<"[">> \o TokPair("'Alice'", "2", "250") \o Sep \o TokPair("'Bob'", "1", "200")
    \o <<"]">>

LitTop == TokPair("'Alice'", "2", "250")

\* The same facts in another order
LitGroupedBobFirst ==
  <<"{", "'Bob'">> \o Colon \o TokAgg("1", "200") \o Sep \o <<"'Alice'">> \o Colon
    \o TokAgg("2", "250") \o <<"}">>

LitSortedBobFirst ==
  <<"[">> \o TokPair("'Bob'", "1", "200") \o Sep \o TokPair("'Alice'", "2", "250")
    \o <<"]">>

LitTopAsList == <<"[", "'Alice'">> \o Sep \o TokAgg("2", "250") \o <<"]">>

Literal(key) ==
  CASE key = "joined" -> LitJoined [] key = "grouped" -> LitGrouped
    [] key = "sorted_result" -> LitSorted [] key = "top_user" -> LitTop

\* Rows of pandas renderings
RowAlice100 == <<"Alice", SP, SP, "1", SP, "100">>

RowAlice150 == <<"Alice", SP, SP, "1", SP, "150">>

RowBob200 == <<"Bob", SP, SP, "2", SP, "200">>

RowAlice == <<"Alice", SP, SP, "2", SP, SP, "250">>

RowBob == <<"Bob", SP, SP, "1", SP, SP, "200">>

RowTotalSpent == <<"total_spent", SP, SP, "250">>

RowName == <<"Name:", SP, "Alice", ",", SP, "dtype:", SP, "int64">>

Blank == <<>>

Garbage == <<"???">>

\* print(x) for every x of a sequence: each print ends with "\n".
RECURSIVE Render(_)
Render(prints) ==
  IF prints = <<>> THEN <<>> ELSE Head(prints) \o <<NL>> \o Render(Tail(prints))

\* What one print of a pandas frame or series writes: several rows.
TableJoined == RowAlice100 \o <<NL>> \o RowAlice150 \o <<NL>> \o RowBob200

TableAliceBob == RowAlice \o <<NL>> \o RowBob

TableBobAlice == RowBob \o <<NL>> \o RowAlice

SeriesTop == RowTotalSpent \o <<NL>> \o RowName

\* All outputs of at most MaxPrints prints taken from the set ps.
Outputs(ps) ==
  UNION {{Render(f) : f \in [1..n -> ps]} : n \in 0..MaxPrints}

\* What a submission may print about one task, for one grading module.
TaskPrints(g, key) ==
  {<<HEADERS(g)[key]>>, Literal(key), Blank}
  \cup (CASE key = "joined"        -> {TableJoined, RowAlice100}
          [] key = "grouped"       -> {LitGroupedBobFirst, TableBobAlice, RowAlice}
          [] key = "sorted_result" -> {LitSortedBobFirst, TableAliceBob, TableBobAlice}
          [] key = "top_user"      -> {LitTopAsList, SeriesTop, RowName})

GradeOutputs(g) == UNION {Outputs(TaskPrints(g, k)) : k \in KeySet}

\* ------------------------------------------------------------------------
\* State
\* ------------------------------------------------------------------------
VARIABLES
  grader,   \* the grading module that runs: "pandas" or "list"
  files,    \* main: sorted(glob.glob(SRC_DIR/*.py))
  self,     \* main: __file__, the path of the grading module
  pos,      \* main: index in files of the next iteration of the for loop
  results,  \* main: the list of GradeResult
  runs,     \* history: what run_student_file returned for results[i]
  calls,    \* history: the files whose stdout went to grade_from_stdout
  csv,      \* the rows written to OUTPUT_CSV
  pc,       \* "grading", "done", "aborted"; "call", "return" for a function
  arg,      \* the arguments of the function under study
  ret       \* its result

vars == <<grader, files, self, pos, results, runs, calls, csv, pc, arg, ret>>

mainVars == <<grader, files, self, pos, results, runs, calls, csv>>

\* ------------------------------------------------------------------------
\* Paths
\* ------------------------------------------------------------------------
SRC_DIR(g) == IF g = "pandas" THEN "pandas_src" ELSE "python_list_src"

GraderBase(g) ==
  IF g = "pandas" THEN <<"grade", "_", "pandas", ".py">>
  ELSE <<"grade", "_", "python", "_", "list", ".py">>

\* Submissions: one name with an underscore, one without, alternating.
StudentBase(i) ==
  IF i % 2 = 1 THEN <<"s", ToString(i), "_", "hw", ".py">>
  ELSE <<"s", ToString(i), ".py">>

\* os.path.join(SRC_DIR, base)
InSrc(g, base) == <<SRC_DIR(g), "/">> \o base

\* os.path.abspath of a path relative to the working directory
abspath(path) == <<"/", "cwd", "/">> \o path

RECURSIVE LastSlash(_, _)
LastSlash(path, i) ==
  IF i < 1 THEN 0 ELSE IF path[i] = "/" THEN i ELSE LastSlash(path, i - 1)

\* os.path.basename
basename(path) == SubSeq(path, LastSlash(path, Len(path)) + 1, Len(path))

RECURSIVE FirstUnderscore(_, _)
FirstUnderscore(base, i) ==
  IF i > Len(base) THEN 0
  ELSE IF base[i] = "_" THEN i
  ELSE FirstUnderscore(base, i + 1)

\* os.path.splitext(base)[0]
SplitExtRoot(base) ==
  IF Len(base) > 1 /\ base[Len(base)] = ".py" THEN SubSeq(base, 1, Len(base) - 1)
  ELSE base

\* re.match(r"^(.+?)_", base): the text before the first underscore that has
\* at least one character in front of it; else the name without extension.
student_id_from_filename(path) ==
  LET base == basename(path)
      m    == FirstUnderscore(base, 2)
  IN IF m # 0 THEN SubSeq(base, 1, m - 1) ELSE SplitExtRoot(base)

\* The test that skips the grading module itself.  grade_pandas.py compares
\* two absolute paths, grade_python_list.py a base name with an absolute path.
IsSelf(g, fpath, file) ==
  IF g = "pandas" THEN abspath(fpath) = abspath(file)
  ELSE basename(fpath) = abspath(file)

\* ------------------------------------------------------------------------
\* run_student_file
\* ------------------------------------------------------------------------
\* Outputs of whole submissions
OutLiterals ==
  Render(<<<<HEADERS_list.joined>>, LitJoined, Blank,
           <<HEADERS_list.grouped>>, LitGrouped, Blank,
           <<HEADERS_list.sorted_result>>, LitSorted, Blank,
           <<HEADERS_list.top_user>>, LitTop>>)

OutTables ==
  Render(<<RowAlice100, RowAlice150, RowBob200, Blank,
           <<HEADERS_list.sorted_result>>, RowAlice, RowBob, Blank,
           <<HEADERS_list.top_user>>, RowTotalSpent, RowName>>)

WholeOutputs == {<<>>, OutLiterals, OutTables}

Traceback == <<"Traceback", SP, "(most recent call last)">>

\* What the child process does: it exits with a status, it is still running
\* after TIMEOUT_SECS, or it cannot be started or decoded.
Behaviours ==
  {[kind |-> "exit", out |-> o, err |-> <<>>, status |-> 0] : o \in WholeOutputs}
  \cup {[kind |-> "exit", out |-> o, err |-> Traceback, status |-> 1] :
      o \in WholeOutputs}
  \cup {[kind |-> "timeout", out |-> OutLiterals, err |-> e, status |-> 0] :
      e \in {<<>>, Traceback}}
  \cup {[kind |-> "error", out |-> <<>>, err |-> <<"OSError">>, status |-> 0]}

TimedOutText(g) ==
  IF g = "pandas" THEN <<"Timed out after ", ToString(TIMEOUT_SECS), "s">>
  ELSE <<"Timed out">>

TIMEOUT_CODE == 124

run_student_file(g, b) ==
  CASE b.kind = "exit" -> [stdout |-> b.out, stderr |-> b.err, code |-> b.status]
    [] b.kind = "timeout" ->
         [stdout |-> b.out,
          stderr |-> IF b.err # <<>> THEN b.err ELSE TimedOutText(g),
          code   |-> TIMEOUT_CODE]
    [] b.kind = "error" -> [stdout |-> <<>>, stderr |-> b.err, code |-> 1]

\* ------------------------------------------------------------------------
\* main
\* ------------------------------------------------------------------------
STDERR_EXCERPT == 500

\* stderr[:500]
Excerpt(stderr) ==
  SubSeq(stderr, 1, IF Len(stderr) < STDERR_EXCERPT THEN Len(stderr) ELSE STDERR_EXCERPT)

\* " | ".join(remarks)
RECURSIVE Join(_)
Join(remarks) ==
  IF remarks = <<>> THEN <<>>
  ELSE IF Len(remarks) = 1 THEN remarks
  ELSE <<Head(remarks), [kind |-> "sep"]>> \o Join(Tail(remarks))

FailedRemark(out) ==
  [kind |-> "failed", code |-> out.code, stderr |-> Excerpt(out.stderr)]

Scored(r) ==
  [total |-> r.total, breakdown |-> r.breakdown, remarks |-> r.remarks, graded |-> TRUE]

\* The if/else on the exit code: graded tells whether grade_from_stdout ran.
\* Here the output is graded whatever the exit code.
score_ignoring_code(g, out) ==
  Let(grade_from_stdout(g, out.stdout), LAMBDA r : Scored(r))

\* Here the total is that of the output although the tasks are zeroed.
score_keeping_total(g, out) ==
  Let(grade_from_stdout(g, out.stdout), LAMBDA r :
    IF out.code # 0
    THEN [total |-> r.total, breakdown |-> ZeroBreakdown,
          remarks |-> <<FailedRemark(out)>>, graded |-> FALSE]
    ELSE Scored(r))

score(g, out) ==
  IF out.code # 0
  THEN [total |-> 0, breakdown |-> ZeroBreakdown,
        remarks |-> <<FailedRemark(out)>>, graded |-> FALSE]
  ELSE Let(grade_from_stdout(g, out.stdout), LAMBDA r : Scored(r))

GradeResult(g, fpath, out, sc) ==
  [student_id |-> student_id_from_filename(fpath),
   filename   |-> basename(fpath),
   total      |-> sc.total,
   breakdown  |-> sc.breakdown,
   remarks    |-> Join(sc.remarks),
   raw_stdout |-> out.stdout,
   raw_stderr |-> out.stderr]

Row(r) ==
  [student_id   |-> r.student_id,
   filename     |-> r.filename,
   grade        |-> r.total,
   joined_pts   |-> r.breakdown["joined"],
   grouped_pts  |-> r.breakdown["grouped"],
   sorted_pts   |-> r.breakdown["sorted_result"],
   top_user_pts |-> r.breakdown["top_user"],
   remarks      |-> r.remarks]

\* Order of the tokens of file names, as their first characters sort.
TokRank(tok) ==
  CASE tok = ".py" -> 1 [] tok = "1" -> 2 [] tok = "2" -> 3 [] tok = "3" -> 4
    [] tok = "4" -> 5 [] tok = "_" -> 6 [] tok = "grade" -> 7 [] tok = "hw" -> 8
    [] tok = "list" -> 9 [] tok = "pandas" -> 10 [] tok = "python" -> 11
    [] tok = "s" -> 12 [] OTHER -> 13

RECURSIVE LexLess(_, _)
LexLess(a, b) ==
  IF b = <<>> THEN FALSE
  ELSE IF a = <<>> THEN TRUE
  ELSE IF TokRank(Head(a)) # TokRank(Head(b)) THEN TokRank(Head(a)) < TokRank(Head(b))
  ELSE LexLess(Tail(a), Tail(b))

RowLess(x, y) ==
  \/ LexLess(x.student_id, y.student_id)
  \/ x.student_id = y.student_id /\ LexLess(x.filename, y.filename)

RECURSIVE InsertRow(_, _)
InsertRow(sorted, row) ==
  IF sorted = <<>> THEN <<row>>
  ELSE IF RowLess(row, Head(sorted)) THEN <<row>> \o sorted
  ELSE <<Head(sorted)>> \o InsertRow(Tail(sorted), row)

\* DataFrame.sort_values(["student_id", "filename"])
RECURSIVE sort_values(_)
sort_values(rows) ==
  IF rows = <<>> THEN <<>>
  ELSE Let(sort_values(SubSeq(rows, 1, Len(rows) - 1)), LAMBDA sorted :
         InsertRow(sorted, rows[Len(rows)]))

\* sorted(glob.glob(...)): the grading module, if it lies in SRC_DIR, sorts
\* before the submissions.
RECURSIVE StudentsFrom(_, _, _)
StudentsFrom(g, S, i) ==
  IF i > MaxFiles THEN <<>>
  ELSE (IF i \in S THEN <<InSrc(g, StudentBase(i))>> ELSE <<>>)
       \o StudentsFrom(g, S, i + 1)

Listing(g, graderInSrc, S) ==
  (IF graderInSrc THEN <<InSrc(g, GraderBase(g))>> ELSE <<>>) \o StudentsFrom(g, S, 1)

NoArg == [fn |-> "none"]

Init ==
  /\ grader \in Graders
  /\ \E graderInSrc \in BOOLEAN, S \in SUBSET (1..MaxFiles) :
       /\ Cardinality(S) + (IF graderInSrc THEN 1 ELSE 0) <= MaxFiles
       /\ files = Listing(grader, graderInSrc, S)
       /\ self = IF graderInSrc THEN InSrc(grader, GraderBase(grader))
                 ELSE GraderBase(grader)
  /\ pos = 1
  /\ results = <<>>
  /\ runs = <<>>
  /\ calls = {}
  /\ csv = <<>>
  /\ pc = "grading"
  /\ arg = NoArg
  /\ ret = NoArg

\* One iteration of the for loop over files.
GradeNext ==
  /\ pc = "grading"
  /\ pos <= Len(files)
  /\ pos' = pos + 1
  /\ IF IsSelf(grader, files[pos], self)
     THEN UNCHANGED <<results, runs, calls>>
     ELSE \E b \in Behaviours :
            \E out \in {run_student_file(grader, b)} :
              \E sc \in {score(grader, out)} :
                /\ results' = Append(results, GradeResult(grader, files[pos], out, sc))
                /\ runs' = Append(runs, [file |-> files[pos], code |-> out.code])
                /\ calls' = IF sc.graded THEN calls \cup {files[pos]} ELSE calls
  /\ UNCHANGED <<grader, files, self, csv, pc, arg, ret>>

\* After the loop: the rows, the sort and the CSV.  sort_values raises
\* KeyError for a frame built from no rows, which has no columns.
WriteReport ==
  /\ pc = "grading"
  /\ pos > Len(files)
  /\ \E rows \in {[i \in 1..Len(results) |-> Row(results[i])]} :
       IF rows = <<>>
       THEN pc' = "aborted" /\ csv' = csv
       ELSE pc' = "done" /\ csv' = sort_values(rows)
  /\ UNCHANGED <<grader, files, self, pos, results, runs, calls, arg, ret>>

Next == GradeNext \/ WriteReport

Spec == Init /\ [][Next]_vars

\* ------------------------------------------------------------------------
\* Properties of main
\* ------------------------------------------------------------------------
FullPoints(g) ==
  POINTS(g)["joined"] + POINTS(g)["grouped"] + POINTS(g)["sorted_result"]
    + POINTS(g)["top_user"]

\* C1: execution failure dominates.  For every file whose run returned a
\* non-zero exit code (1 or the timeout code 124) the total is 0, every task's
\* breakdown entry is 0, the remarks are exactly one remark that carries the
\* exit code, and grade_from_stdout was not called for that file, whatever the
\* captured stdout is.
C1_FailureDominates ==
  /\ Len(runs) = Len(results)
  /\ \A i \in 1..Len(results) :
       runs[i].code # 0 =>
         /\ results[i].total = 0
         /\ \A k \in KeySet : results[i].breakdown[k] = 0
         /\ Len(results[i].remarks) = 1
         /\ results[i].remarks[1].kind = "failed"
         /\ results[i].remarks[1].code = runs[i].code
         /\ runs[i].file \notin calls

\* A timed-out run and a failed run whose stdout holds every correct answer.
C1_Witness ==
  /\ \E i \in 1..Len(results) :
       runs[i].code = TIMEOUT_CODE /\ results[i].raw_stdout = OutLiterals
  /\ \E i \in 1..Len(results) :
       runs[i].code = 1 /\ results[i].raw_stdout = OutTables

\* C2: in every GradeResult, on the failure path and on the graded path, each
\* breakdown entry is 0 or the task's points and the total is the sum of the
\* four breakdown entries.
C2_BreakdownAndTotal ==
  \A i \in 1..Len(results) :
    /\ \A k \in KeySet : results[i].breakdown[k] \in {0, POINTS(grader)[k]}
    /\ results[i].total =
         results[i].breakdown["joined"] + results[i].breakdown["grouped"]
           + results[i].breakdown["sorted_result"] + results[i].breakdown["top_user"]

\* A failed run whose stdout would earn points next to a graded run with
\* some but not all of the points.
C2_Witness ==
  /\ \E i \in 1..Len(results) : runs[i].code # 0 /\ results[i].raw_stdout = OutLiterals
  /\ \E i \in 1..Len(results) :
       runs[i].code = 0 /\ results[i].total > 0 /\ results[i].total < FullPoints(grader)

Submissions == {files[i] : i \in {j \in 1..Len(files) : files[j] # self}}

\* C7: for any set of submission files, the empty set included, a run of main
\* ends without aborting and has exactly one GradeResult per submission file.
C7_RunNeverAborts ==
  /\ pc # "aborted"
  /\ pc = "done" =>
       \A f \in Submissions :
         Cardinality({i \in 1..Len(results) : results[i].filename = basename(f)}) = 1

\* ------------------------------------------------------------------------
\* grade_from_stdout on its own
\* ------------------------------------------------------------------------
IdleMain ==
  /\ files = <<>>
  /\ self = <<>>
  /\ pos = 1
  /\ results = <<>>
  /\ runs = <<>>
  /\ calls = {}
  /\ csv = <<>>

InitGrade ==
  /\ grader \in Graders
  /\ IdleMain
  /\ pc = "call"
  /\ \E o \in GradeOutputs(grader) : arg = [fn |-> "grade_from_stdout", stdout |-> o]
  /\ ret = NoArg

CallGrade ==
  /\ pc = "call"
  /\ arg.fn = "grade_from_stdout"
  /\ ret' = grade_from_stdout(grader, arg.stdout)
  /\ pc' = "return"
  /\ UNCHANGED <<mainVars, arg>>

NextGrade == CallGrade

SpecGrade == InitGrade /\ [][NextGrade]_vars

Returned(fn) == pc = "return" /\ arg.fn = fn

\* The literal after the task's marker equals the expected value.
StrictPass(g, key, stdout) ==
  LET obj == extract_after_header(stdout, HEADERS(g)[key])
  IN ~IsNone(obj) /\ compare_deep(obj, EXPECTED[key])

\* The tolerant matcher of the task accepts the raw output.
TolerantPass(key, stdout) ==
  \/ key = "joined" /\ joined_fallback(stdout)
  \/ key = "grouped" /\ grouped_fallback(stdout)
  \/ key = "sorted_result" /\ sorted_fallback(stdout)
  \/ key = "top_user" /\ top_user_fallback(stdout)

Named(remarks, key) ==
  \E i \in 1..Len(remarks) :
    remarks[i].kind \in {"mismatch", "expected"} /\ remarks[i].key = key

\* C3 as claimed: in each grading module a task gets its full points iff the
\* extracted literal equals the expected value or the task's tolerant matcher
\* accepts the raw output, else zero and a remark naming the task.
C3_DualPathInEachModule ==
  Returned("grade_from_stdout") =>
    \A k \in KeySet :
      LET pass == StrictPass(grader, k, arg.stdout) \/ TolerantPass(k, arg.stdout)
      IN /\ ret.breakdown[k] = IF pass THEN POINTS(grader)[k] ELSE 0
         /\ Named(ret.remarks, k) <=> ~pass

\* C3 amended: the dual path is that of grade_pandas.py; in
\* grade_python_list.py a task gets its full points iff the extracted literal
\* equals the expected value.  In both, a task that does not pass gets zero
\* and a remark naming it.
C3_DualPathInPandas ==
  Returned("grade_from_stdout") =>
    \A k \in KeySet :
      LET pass == \/ StrictPass(grader, k, arg.stdout)
                  \/ grader = "pandas" /\ TolerantPass(k, arg.stdout)
      IN /\ ret.breakdown[k] = IF pass THEN POINTS(grader)[k] ELSE 0
         /\ Named(ret.remarks, k) <=> ~pass

\* grade_pandas.py gives the grouped task its points for a table alone.
C3_Witness ==
  /\ Returned("grade_from_stdout")
  /\ grader = "pandas"
  /\ arg.stdout = Render(<<TableBobAlice>>)
  /\ ret.breakdown["grouped"] = POINTS_pandas["grouped"]
  /\ ret.breakdown["sorted_result"] = 0

MatchesIn(re, text, from) == {i \in from..Len(text) : MatchAt(re, text, i)}

\* C4 as claimed: in grade_pandas.py, when both patterns occur in the output
\* and 'Alice 2 250' first occurs later than 'Bob 1 200', the sorted_result
\* task gets zero.
C4_LaterAliceGetsZero ==
  (Returned("grade_from_stdout") /\ grader = "pandas") =>
    LET as == MatchesIn("RE_G_A", arg.stdout, 1)
        bs == MatchesIn("RE_G_B", arg.stdout, 1)
    IN (as # {} /\ bs # {} /\ Min(as) > Min(bs)) => ret.breakdown["sorted_result"] = 0

\* C4 amended: in grade_pandas.py, when the literal after the marker is not
\* the expected value and, in the text after the first occurrence of the
\* Sorted Result marker (the whole output if the marker does not occur), both
\* patterns occur and 'Alice 2 250' first occurs later than 'Bob 1 200', the
\* sorted_result task gets zero.
C4_LaterAliceInWindowGetsZero ==
  (Returned("grade_from_stdout") /\ grader = "pandas") =>
    LET from == find(arg.stdout, SORTED_MARKER) + 1
        as   == MatchesIn("RE_G_A", arg.stdout, from)
        bs   == MatchesIn("RE_G_B", arg.stdout, from)
    IN (/\ ~StrictPass("pandas", "sorted_result", arg.stdout)
        /\ as # {} /\ bs # {} /\ Min(as) > Min(bs))
       => ret.breakdown["sorted_result"] = 0

\* Both rows after the marker, Bob's first: zero for sorted_result, although
\* the grouped task is satisfied by the same rows.
C4_Witness ==
  /\ Returned("grade_from_stdout")
  /\ grader = "pandas"
  /\ arg.stdout = Render(<<<<SORTED_MARKER>>, TableBobAlice>>)
  /\ ret.breakdown["sorted_result"] = 0

\* C8 as claimed: of any two remarks returned by grade_from_stdout, the
\* earlier one never concerns a task declared after the task of the later.
C8_RemarksInTaskOrder ==
  Returned("grade_from_stdout") =>
    \A i, j \in 1..Len(ret.remarks) :
      i < j => KeyIndex(ret.remarks[i].key) <= KeyIndex(ret.remarks[j].key)

\* C8 amended: the remarks of grade_pandas.py are in task-declaration order;
\* those of grade_python_list.py are its "missing or unparsable" remarks in
\* task-declaration order followed by its "expected ..., got ..." remarks in
\* task-declaration order.
C8_RemarksInTaskOrderPerLoop ==
  Returned("grade_from_stdout") =>
    \A i, j \in 1..Len(ret.remarks) :
      i < j =>
        /\ ret.remarks[i].kind = ret.remarks[j].kind =>
             KeyIndex(ret.remarks[i].key) < KeyIndex(ret.remarks[j].key)
        /\ ~(ret.remarks[i].kind = "expected" /\ ret.remarks[j].kind = "missing")
        /\ grader = "pandas" =>
             KeyIndex(ret.remarks[i].key) < KeyIndex(ret.remarks[j].key)

\* grade_python_list.py with a missing top_user and a wrong joined literal.
C8_Witness ==
  /\ Returned("grade_from_stdout")
  /\ grader = "list"
  /\ \E i, j \in 1..Len(ret.remarks) :
       /\ i < j
       /\ ret.remarks[i].kind = "missing" /\ ret.remarks[i].key = "top_user"
       /\ ret.remarks[j].kind = "expected" /\ ret.remarks[j].key = "joined"

\* ------------------------------------------------------------------------
\* extract_after_header on its own
\* ------------------------------------------------------------------------
ExtractHeader == HEADERS_list["top_user"]

\* Header lines bare and padded, a line that only contains the header, blank
\* lines, literals and text that is no literal.
ExtractPrints ==
  {<<ExtractHeader>>, <<SP, ExtractHeader, SP, SP>>, <<ExtractHeader, SP, "???">>,
   Blank, <<SP, SP>>, <<SP, "250">>, LitTop, <<"None">>, RowAlice}

InitExtract ==
  /\ grader \in Graders
  /\ IdleMain
  /\ pc = "call"
  /\ \E o \in Outputs(ExtractPrints), h \in {ExtractHeader, HEADERS_pandas["top_user"]} :
       arg = [fn |-> "extract_after_header", stdout |-> o, header |-> h]
  /\ ret = NoArg

CallExtract ==
  /\ pc = "call"
  /\ arg.fn = "extract_after_header"
  /\ ret' = extract_after_header(arg.stdout, arg.header)
  /\ pc' = "return"
  /\ UNCHANGED <<mainVars, arg>>

NextExtract == CallExtract

SpecExtract == InitExtract /\ [][NextExtract]_vars

\* The same Python object: type by type, dict items in the same order.
RECURSIVE Identical(_, _)
Identical(a, b) ==
  IF a.t # b.t THEN FALSE
  ELSE IF a.t \in {"int", "str"} THEN a.v = b.v
  ELSE IF a.t = "none" THEN TRUE
  ELSE IF a.t \in {"list", "tuple"} THEN
    /\ Len(a.v) = Len(b.v)
    /\ \A i \in 1..Len(a.v) : Identical(a.v[i], b.v[i])
  ELSE
    /\ Len(a.v) = Len(b.v)
    /\ \A i \in 1..Len(a.v) :
         /\ Identical(a.v[i].k, b.v[i].k)
         /\ Identical(a.v[i].val, b.v[i].val)

MarkerLines(stdout, header) ==
  {i \in 1..Len(splitlines(stdout)) : strip(splitlines(stdout)[i]) = <<header>>}

NonBlankAfter(stdout, m) ==
  {j \in (m + 1)..Len(splitlines(stdout)) : strip(splitlines(stdout)[j]) # <<>>}

\* C5: extract_after_header returns None when no stripped line equals the
\* marker, when the first such line is followed by blank lines only, and when
\* the first non-blank line after it is no literal; otherwise it returns the
\* literal of the first non-blank line after the first marker line.  Later
\* marker lines are not considered.  The call changes nothing but its result.
C5_ExtractAfterFirstMarker ==
  Returned("extract_after_header") =>
    LET ms == MarkerLines(arg.stdout, arg.header)
    IN IF ms = {} THEN IsNone(ret)
       ELSE LET ns == NonBlankAfter(arg.stdout, Min(ms))
            IN IF ns = {} THEN IsNone(ret)
               ELSE Identical(ret, safe_literal_eval(splitlines(arg.stdout)[Min(ns)]))

\* The marker twice: the first followed by text that is no literal, the second
\* by a literal, and the result is None.
C5_Witness ==
  /\ Returned("extract_after_header")
  /\ arg.header = ExtractHeader
  /\ arg.stdout = Render(<<<<ExtractHeader>>, <<SP, ExtractHeader, SP, SP>>, <<SP, "250">>>>)
  /\ IsNone(ret)

\* ------------------------------------------------------------------------
\* compare_deep on its own
\* ------------------------------------------------------------------------
\* Pairwise different values to build the arguments from.
Atoms ==
  <<PyInt(1), PyInt(2), PyStr("Alice"), PyList(<<PyInt(1), PyInt(2)>>),
    PyList(<<PyInt(2), PyInt(1)>>)>>

AtomKey(p) == PyStr(ToString(p))

\* A list, a tuple or a dict of the atoms p and q in this order, or the atom p.
Build(shape, p, q) ==
  CASE shape = "list"  -> PyList(<<Atoms[p], Atoms[q]>>)
    [] shape = "tuple" -> PyTuple(<<Atoms[p], Atoms[q]>>)
    [] shape = "dict"  ->
         PyDict(IF p = q THEN <<Item(AtomKey(p), Atoms[p])>>
                ELSE <<Item(AtomKey(p), Atoms[p]), Item(AtomKey(q), Atoms[q])>>)
    [] shape = "atom"  -> Atoms[p]

Builders == {"list", "tuple", "dict", "atom"}

InitCompare ==
  /\ grader \in Graders
  /\ IdleMain
  /\ pc = "call"
  /\ \E sa \in Builders, sb \in Builders :
       \E pa \in 1..Len(Atoms), qa \in 1..Len(Atoms), pb \in 1..Len(Atoms),
          qb \in 1..Len(Atoms) :
         arg = [fn |-> "compare_deep", sa |-> sa, pa |-> pa, qa |-> qa,
                sb |-> sb, pb |-> pb, qb |-> qb]
  /\ ret = NoArg

CallCompare ==
  /\ pc = "call"
  /\ arg.fn = "compare_deep"
  /\ ret' = compare_deep(Build(arg.sa, arg.pa, arg.qa), Build(arg.sb, arg.pb, arg.qb))
  /\ pc' = "return"
  /\ UNCHANGED <<mainVars, arg>>

NextCompare == CallCompare

SpecCompare == InitCompare /\ [][NextCompare]_vars

Shape(x) ==
  CASE x.t = "list" -> "sequence" [] x.t = "tuple" -> "tuple"
    [] x.t = "dict" -> "mapping" [] OTHER -> "scalar"

\* C6: compare_deep is deep structural equality.  Two sequences (and two
\* tuples) are equal only with the same elements in the same order, two
\* mappings whenever they hold the same key/value pairs in whatever insertion
\* order, and values of different shape are never equal.
C6_DeepStructuralEquality ==
  Returned("compare_deep") =>
    LET a == Build(arg.sa, arg.pa, arg.qa)
        b == Build(arg.sb, arg.pb, arg.qb)
    IN /\ (arg.sa = arg.sb /\ arg.sa \in {"list", "tuple"}) =>
            (ret <=> (arg.pa = arg.pb /\ arg.qa = arg.qb))
       /\ (arg.sa = "dict" /\ arg.sb = "dict") =>
            (ret <=> {arg.pa, arg.qa} = {arg.pb, arg.qb})
       /\ (arg.sa = "atom" /\ arg.sb = "atom") => (ret <=> arg.pa = arg.pb)
       /\ Shape(a) # Shape(b) => ~ret

\* Two dicts with the same items inserted in opposite orders compare equal.
C6_Witness ==
  /\ Returned("compare_deep")
  /\ arg.sa = "dict" /\ arg.sb = "dict"
  /\ arg.pa = 1 /\ arg.qa = 4 /\ arg.pb = 4 /\ arg.qb = 1
  /\ ret = TRUE

\* ------------------------------------------------------------------------
\* The tolerant matchers on their own
\* ------------------------------------------------------------------------
FallbackPrints ==
  {<<SORTED_MARKER>>, <<TOP_MARKER>>, <<HEADERS_list["sorted_result"]>>,
   TableAliceBob, TableBobAlice, RowTotalSpent, RowName,
   <<"NAME:", "ALICE">>}

InitFallback ==
  /\ grader = "pandas"
  /\ IdleMain
  /\ pc = "call"
  /\ \E o \in Outputs(FallbackPrints) : arg = [fn |-> "fallback", stdout |-> o]
  /\ ret = NoArg

CallFallback ==
  /\ pc = "call"
  /\ arg.fn = "fallback"
  /\ ret' = [k \in KeySet |-> fallback(k, arg.stdout)]
  /\ pc' = "return"
  /\ UNCHANGED <<mainVars, arg>>

NextFallback == CallFallback

SpecFallback == InitFallback /\ [][NextFallback]_vars

Occurs(text, marker) == \E i \in 1..Len(text) : text[i] = marker

FirstAt(text, marker) == Min({i \in 1..Len(text) : text[i] = marker})

\* The evidence of the sort task at or after position from: both rows, the
\* first Alice row before the first Bob row.
SortedEvidence(text, from) ==
  LET as == MatchesIn("RE_G_A", text, from)
      bs == MatchesIn("RE_G_B", text, from)
  IN as # {} /\ bs # {} /\ Min(as) < Min(bs)

\* The evidence of the top-user task at or after position from.
TopEvidence(text, from) ==
  MatchesIn("RE_TOP_NAME", text, from) # {} /\ MatchesIn("RE_TOP_VAL", text, from) # {}

\* C9: sorted_fallback and top_user_fallback search only the text after the
\* first occurrence of their marker when the marker occurs, so evidence that
\* occurs only before the marker does not make them pass; when the marker does
\* not occur they search the whole output.
C9_SearchWindow ==
  Returned("fallback") =>
    /\ ret["sorted_result"] <=>
         IF Occurs(arg.stdout, SORTED_MARKER)
         THEN SortedEvidence(arg.stdout, FirstAt(arg.stdout, SORTED_MARKER) + 1)
         ELSE SortedEvidence(arg.stdout, 1)
    /\ ret["top_user"] <=>
         IF Occurs(arg.stdout, TOP_MARKER)
         THEN TopEvidence(arg.stdout, FirstAt(arg.stdout, TOP_MARKER) + 1)
         ELSE TopEvidence(arg.stdout, 1)

\* The rows in the right order before the marker only: no pass, although the
\* same rows without a marker pass.
C9_Witness ==
  /\ Returned("fallback")
  /\ arg.stdout = Render(<<TableAliceBob, <<SORTED_MARKER>>>>)
  /\ ~ret["sorted_result"]
  /\ sorted_fallback(Render(<<TableAliceBob>>))

\* ------------------------------------------------------------------------
\* The exercise templates and the markers
\* ------------------------------------------------------------------------
\* The print(header) / print(variable) pairs of studentID_python_list.py; gap
\* is the "\n" in front of the header.
TEMPLATE_list ==
  <<[header |-> "<U+2705> Joined Result:",  var |-> "joined",        gap |-> FALSE],
    [header |-> "<U+2705> Grouped Result:", var |-> "grouped",       gap |-> TRUE],
    [header |-> "<U+2705> Sorted Result:",  var |-> "sorted_result", gap |-> TRUE],
    [header |-> "<U+1F3C6> Top User:",      var |-> "top_user",      gap |-> TRUE]>>

\* The pairs of studentID_pandas.py.
TEMPLATE_pandas ==
  <<[header |-> "<U+2705> df_users:",         var |-> "df_users",      gap |-> FALSE],
    [header |-> "<U+2705> df_orders:",        var |-> "df_orders",     gap |-> TRUE],
    [header |-> "<U+2705> Merged DataFrame:", var |-> "merged",        gap |-> TRUE],
    [header |-> "<U+2705> Sorted Result:",    var |-> "sorted_result", gap |-> TRUE],
    [header |-> "<U+1F3C6> Top User:",        var |-> "top_user",      gap |-> TRUE]>>

TEMPLATE(g) == IF g = "pandas" THEN TEMPLATE_pandas ELSE TEMPLATE_list

\* The output of the template with vals[i] printed for its i-th variable.
RECURSIVE TemplateFrom(_, _, _)
TemplateFrom(tpl, vals, i) ==
  IF i > Len(tpl) THEN <<>>
  ELSE (IF tpl[i].gap THEN <<NL>> ELSE <<>>)
       \o <<tpl[i].header, NL>> \o vals[i] \o <<NL>>
       \o TemplateFrom(tpl, vals, i + 1)

TemplateOutput(g, vals) == TemplateFrom(TEMPLATE(g), vals, 1)

PrintedValues == {LitTop, TableAliceBob, Garbage}

InitTemplate ==
  /\ grader \in Graders
  /\ IdleMain
  /\ pc = "call"
  /\ \E vals \in [1..Len(TEMPLATE(grader)) -> PrintedValues] :
       arg = [fn |-> "markers", stdout |-> TemplateOutput(grader, vals)]
  /\ ret = NoArg

\* Where the grading module finds its markers in the output: the header line
\* of each task in extract_after_header, the marker of each fallback.
CallMarkers ==
  /\ pc = "call"
  /\ arg.fn = "markers"
  /\ ret' = [line   |-> [k \in KeySet |->
                           HeaderLine(splitlines(arg.stdout), HEADERS(grader)[k])],
             sorted |-> find(arg.stdout, SORTED_MARKER),
             top    |-> find(arg.stdout, TOP_MARKER)]
  /\ pc' = "return"
  /\ UNCHANGED <<mainVars, arg>>

NextTemplate == CallMarkers

SpecTemplate == InitTemplate /\ [][NextTemplate]_vars

\* C10: in each grader the marker of every task is the header line that the
\* exercise template prints, so in the output of a submission that follows
\* the template every task's marker line is found, and so are the markers of
\* the two fallbacks of grade_pandas.py.
C10_MarkersMatchTemplate ==
  Returned("markers") =>
    /\ \A k \in KeySet : ret.line[k] # 0
    /\ grader = "pandas" => ret.sorted # 0 /\ ret.top # 0

====
